---- MODULE Spec2Model ----
(***************************************************************************)
(* Task lifecycle and notification engine of the task-manager bot.         *)
(*                                                                         *)
(* State: the rows of the SQLite tables tasks, task_history, notifications *)
(* and users (database.py), the position of the notification loop          *)
(* (notifications.py) and the messages the overdue alert has delivered.    *)
(* Time is counted in whole hours of UTC.  A nullable column holds the     *)
(* empty set for NULL and a singleton {v} for the value v.                 *)
(*                                                                         *)
(* The bot is one asyncio process: a handler or the loop runs without      *)
(* interruption until it awaits.  The loop's synchronous stretches are     *)
(* separate steps below, but a user request, the passage of time and a     *)
(* process restart are taken only while the loop is suspended at an await  *)
(* (AtAwait).                                                              *)
(***************************************************************************)
EXTENDS Integers, Sequences, FiniteSets, TLC

VARIABLES
    now,            \* current UTC time, hours
    users,          \* table users: id -> [telegram_id, role]
    tasks,          \* table tasks: id -> row
    history,        \* table task_history, per task: sequence of entries
    notifications,  \* table notifications: id -> row
    sched,          \* the notification loop: [pc, queue, cur]
    delivered,      \* per task: "task overdue" alerts that reached the recipient
    flipped,        \* rows the last update_overdue_tasks changed (its rowcount)
    failures,       \* dispatch/storage failures and restarts injected so far
    reply,          \* the answer of the last request handler
    shown,          \* the tasks the last request handler displayed
    limits,         \* the bounds of the run: [tasks, hist, failures]
    calc            \* the last evaluation of a function of utils.py, its inputs and result

vars == <<now, users, tasks, history, notifications, sched, delivered, flipped, failures,
          reply, shown, limits, calc>>

-----------------------------------------------------------------------------
(* Bounds of the model *)

MaxTasks == 1
MaxHist == 3
MaxTime == 5
MaxFailures == 1
MaxOffsetHours == 14
MaxDatetimeHours == 72
LargeCount == 10000

\* A second set of bounds, for runs in which several notifications are pending at
\* once.
ManyTasks == 2
ManyFailures == 3

\* The history rows of a run in which all the allowed fields of a task are updated.
EditHist == 6

(* Program constants *)

DISPLAY_TZ_OFFSET_HOURS == 5
REMINDER_WINDOW_HOURS == 1
REMINDER_HOURS_BEFORE == <<24, 6, 1>>

\* str() of a user id, as assign_task writes it to the history.
Str(n) == <<"1", "2", "3", "4">>[n]

NULL == {}
Some(v) == {v}
Val(x) == CHOOSE v \in x : TRUE

Statuses == {"new", "in_progress", "completed", "overdue", "cancelled"}

\* The status buttons of the task list, the task detail and the status menu.
StatusButtons == {"new", "in_progress", "completed", "cancelled"}

\* The registered users: one administrator and two workers.
RegisteredUsers ==
    <<[telegram_id |-> 101, role |-> "admin"],
      [telegram_id |-> 102, role |-> "user"],
      [telegram_id |-> 103, role |-> "user"]>>

UserIds == DOMAIN RegisteredUsers

\* The users picked as assignee in the creation dialogue and the user ids that come
\* in the callback data assign_to_<user>_<task>: a registered user and an id that
\* names no user.
CreateAssignees == {2}
AssignTargets == {3, 4}
TaskIds == 1..limits.tasks

\* Deadlines typed by hand as an absolute local date (validate_deadline's strptime
\* formats): one that is past when stored and one two hours ahead of time 0.
ManualDeadlines == {DISPLAY_TZ_OFFSET_HOURS - 1, DISPLAY_TZ_OFFSET_HOURS + 2}

\* ORDER BY: the elements of a finite set in increasing order of their keys, a key
\* being a triple of integers compared column by column.
LexLeq(a, b) ==
    \/ a[1] < b[1]
    \/ a[1] = b[1] /\ a[2] < b[2]
    \/ a[1] = b[1] /\ a[2] = b[2] /\ a[3] <= b[3]

RECURSIVE SortedBy(_, _)
SortedBy(ids, key) ==
    IF ids = {} THEN <<>>
    ELSE LET m == CHOOSE x \in ids : \A y \in ids : LexLeq(key[x], key[y])
         IN  <<m>> \o SortedBy(ids \ {m}, key)

-----------------------------------------------------------------------------
(* utils.py *)

to_utc(dt) == IF dt = NULL THEN NULL ELSE Some(Val(dt) - DISPLAY_TZ_OFFSET_HOURS)

get_current_tashkent_time(utc_now) == utc_now + DISPLAY_TZ_OFFSET_HOURS

\* The same functions to the second and for any configured offset.  A datetime is
\* the wall clock it shows, in seconds, and its tzinfo: NULL for a naive one, the
\* utcoffset in seconds for an aware one.
Naive(wall) == [wall |-> wall, tzinfo |-> NULL]
Aware(wall, utcoffset) == [wall |-> wall, tzinfo |-> Some(utcoffset)]

\* dt.astimezone(tz): the same instant on the wall clock of tz.
astimezone(dt, utcoffset) == Aware(dt.wall - Val(dt.tzinfo) + utcoffset, utcoffset)

\* if dt.tzinfo is None: dt = dt.replace(tzinfo=timezone.utc); return dt.astimezone(target_tz)
_to_local_time(dt, offset_hours) ==
    astimezone(IF dt.tzinfo = NULL THEN Aware(dt.wall, 0) ELSE dt, 3600 * offset_hours)

to_utc_datetime_unshifted(dt, offset_hours) == Naive(dt.wall)

\* to_utc over these datetimes: a naive one is taken to be on the local wall clock;
\* return dt.astimezone(timezone.utc).replace(tzinfo=None)
to_utc_datetime(dt, offset_hours) ==
    Naive(astimezone(IF dt.tzinfo = NULL THEN Aware(dt.wall, 3600 * offset_hours) ELSE dt,
                     0).wall)

\* strftime("%d.%m.%Y %H:%M"): the text names the wall clock to the minute; it is
\* kept as the count of whole minutes it names.
strftime(dt) == dt.wall \div 60

\* datetime.strptime(text, "%d.%m.%Y %H:%M"): a naive datetime, seconds zero.
strptime(text) == Naive(text * 60)

\* format_datetime(dt): dt_local = _to_local_time(dt); dt_local.strftime(...)
format_datetime(dt, offset_hours) == strftime(_to_local_time(dt, offset_hours))

\* The wall clocks a datetime can hold, datetime.min to datetime.max: arithmetic that
\* leaves them raises OverflowError.
InDatetimeRange(wall) == 0 <= wall /\ wall <= 3600 * MaxDatetimeHours

\* A text typed as a deadline, by what validate_deadline reads in it: a date and time
\* in one of the six formats (n: the minute it names), a text in such a format that
\* names no date of the calendar, "через n дн/ч/мин", "завтра", "послезавтра", any
\* other text, or none.
DeadlineTexts ==
    [kind : {"absolute"}, n : {0, 60 * DISPLAY_TZ_OFFSET_HOURS, 60 * MaxDatetimeHours}]
    \cup [kind : {"days", "hours", "minutes"}, n : {1, 2, LargeCount}]
    \cup [kind : {"no_such_date", "tomorrow", "day_after_tomorrow", "other", "empty"},
          n : {0}]

\* deadline_str.lower().strip(), cut into the pieces the patterns are made of; "n"
\* stands for the digits.  "послезавтра" is "после" followed by "завтра".
Pieces(text) ==
    CASE text.kind = "days" -> <<"cherez ", "n", " dn">>
      [] text.kind = "hours" -> <<"cherez ", "n", " ch">>
      [] text.kind = "minutes" -> <<"cherez ", "n", " min">>
      [] text.kind = "tomorrow" -> <<"zavtra">>
      [] text.kind = "day_after_tomorrow" -> <<"posle", "zavtra">>
      [] OTHER -> <<"other">>

\* The list of patterns, in its order, each with the meaning its lambda gives it.
patterns ==
    <<[re |-> <<"cherez ", "n", " dn">>, means |-> "days"],
      [re |-> <<"cherez ", "n", " ch">>, means |-> "hours"],
      [re |-> <<"cherez ", "n", " min">>, means |-> "minutes"],
      [re |-> <<"zavtra">>, means |-> "tomorrow"],
      [re |-> <<"posle", "zavtra">>, means |-> "day_after_tomorrow"]>>

\* re.search(pattern, string): the pattern matches anywhere in the string.
search(pattern, string) ==
    \E i \in 0..(Len(string) - Len(pattern)) :
        SubSeq(string, i + 1, i + Len(pattern)) = pattern

\* for pattern, func in patterns: the first pattern of the list that matches, 0 if
\* none does.
FirstMatch(string) ==
    LET hits == {i \in DOMAIN patterns : search(patterns[i].re, string)}
    IN  IF hits = {} THEN 0 ELSE CHOOSE i \in hits : \A j \in hits : i <= j

\* current_time + timedelta(...)
PlusTimedelta(wall, seconds) ==
    IF InDatetimeRange(wall + seconds)
    THEN [raised |-> FALSE, value |-> Some(Naive(wall + seconds))]
    ELSE [raised |-> TRUE, value |-> NULL]

\* The formats are tried under "except ValueError: continue"; the relative patterns
\* are evaluated under no try.
validate_deadline(text, current_time) ==
    LET end_of_day == current_time - (current_time % 86400) + 86399
        func(means) ==
            CASE means = "days" -> PlusTimedelta(current_time, 86400 * text.n)
              [] means = "hours" -> PlusTimedelta(current_time, 3600 * text.n)
              [] means = "minutes" -> PlusTimedelta(current_time, 60 * text.n)
              [] means = "tomorrow" -> PlusTimedelta(end_of_day, 86400)
              [] means = "day_after_tomorrow" -> PlusTimedelta(end_of_day, 2 * 86400)
        match == FirstMatch(Pieces(text))
    IN  CASE text.kind = "empty" -> [raised |-> FALSE, value |-> NULL]
          [] text.kind = "absolute" -> [raised |-> FALSE, value |-> Some(strptime(text.n))]
          [] text.kind = "no_such_date" -> [raised |-> FALSE, value |-> NULL]
          [] OTHER -> IF match = 0
                      THEN [raised |-> FALSE, value |-> NULL]
                      ELSE func(patterns[match].means)

-----------------------------------------------------------------------------
(* database.py *)

\* A task_history row without its id and created_at columns.
HistoryEntry(user_id, action, old_value, new_value) ==
    [user_id |-> user_id, action |-> action, old_value |-> old_value, new_value |-> new_value]

_add_task_history(hs, task_id, user_id, action, old_value, new_value) ==
    [hs EXCEPT ![task_id] = Append(@, HistoryEntry(user_id, action, old_value, new_value))]

\* The LEFT JOIN users a ON t.assignee_id = a.id of get_task_by_id / get_overdue_tasks.
assignee_telegram_id(us, task) ==
    IF task.assignee_id \in DOMAIN us THEN Some(us[task.assignee_id].telegram_id) ELSE NULL

get_user_by_telegram_id(us, telegram_id) ==
    {u \in DOMAIN us : us[u].telegram_id = telegram_id}

create_task(tk, hs, creator_id, assignee_id, deadline) ==
    LET task_id == Len(tk) + 1 IN
    [task_id |-> task_id,
     tasks   |-> Append(tk, [creator_id |-> creator_id, assignee_id |-> assignee_id,
                             status |-> "new", deadline |-> deadline,
                             completed_at |-> NULL, title |-> "title",
                             description |-> "description", priority |-> "medium"]),
     history |-> Append(hs, <<HistoryEntry(creator_id, "created", "None", "created")>>)]

\* The tasks.status CHECK constraint: a value outside it raises IntegrityError, which
\* update_task_status catches and reports as False with nothing written.
StatusCheck(status) == status \in Statuses

update_task_status(tk, hs, task_id, status, user_id, utcnow) ==
    IF task_id \notin DOMAIN tk \/ ~StatusCheck(status)
    THEN [ok |-> FALSE, tasks |-> tk, history |-> hs]
    ELSE [ok |-> TRUE,
          tasks |-> [tk EXCEPT ![task_id].status = status,
                               ![task_id].completed_at =
                                   IF status = "completed" THEN Some(utcnow) ELSE NULL],
          history |-> _add_task_history(hs, task_id, user_id, "status_changed",
                                        tk[task_id].status, status)]

cancel_task_once(tk, hs, task_id, user_id) ==
    IF task_id \notin DOMAIN tk \/ tk[task_id].status = "cancelled"
    THEN [ok |-> FALSE, tasks |-> tk, history |-> hs]
    ELSE [ok |-> TRUE,
          tasks |-> [tk EXCEPT ![task_id].status = "cancelled"],
          history |-> _add_task_history(hs, task_id, user_id, "status_changed",
                                        tk[task_id].status, "cancelled")]

cancel_task(tk, hs, task_id, user_id) ==
    IF task_id \notin DOMAIN tk
    THEN [ok |-> FALSE, tasks |-> tk, history |-> hs]
    ELSE [ok |-> TRUE,
          tasks |-> [tk EXCEPT ![task_id].status = "cancelled"],
          history |-> _add_task_history(hs, task_id, user_id, "status_changed",
                                        tk[task_id].status, "cancelled")]

assign_task(tk, hs, task_id, assignee_id, user_id) ==
    IF task_id \notin DOMAIN tk
    THEN [ok |-> FALSE, tasks |-> tk, history |-> hs]
    ELSE [ok |-> TRUE,
          tasks |-> [tk EXCEPT ![task_id].assignee_id = assignee_id],
          history |-> _add_task_history(hs, task_id, user_id, "assigned",
                                        Str(tk[task_id].assignee_id), Str(assignee_id))]

OverdueCandidate_any_status(task, utcnow) ==
    task.deadline # NULL /\ Val(task.deadline) < utcnow

\* allowed_fields, in the order the caller's dictionary is walked.
allowed_fields == <<"title", "description", "priority", "deadline", "assignee_id">>

\* The CHECK and NOT NULL constraints of the columns an update can write.
FieldCheck(field, value) ==
    CASE field = "priority" -> value \in {"low", "medium", "high"}
      [] field = "title" -> value # "None"
      [] OTHER -> TRUE

\* str(value) if value is not None else None, for the values of these columns.
FieldStr(field, value) ==
    CASE field = "deadline" ->
            IF value = NULL THEN "None"
            ELSE <<"-5", "-4", "-3", "-2", "-1", "0", "1", "2", "3", "4", "5">>[Val(value) + 6]
      [] field = "assignee_id" -> IF value = 0 THEN "None" ELSE Str(value)
      [] OTHER -> value

\* The SET of the allowed fields of updates, and one history entry for each.
RECURSIVE ApplyFields(_, _, _, _, _)
ApplyFields(row, entries, fields, updates, user_id) ==
    IF fields = <<>> THEN [row |-> row, entries |-> entries]
    ELSE LET field == Head(fields) IN
         IF field \in DOMAIN updates
         THEN ApplyFields([row EXCEPT ![field] = updates[field]],
                          Append(entries,
                                 HistoryEntry(user_id, field \o "_updated",
                                              FieldStr(field, row[field]),
                                              FieldStr(field, updates[field]))),
                          Tail(fields), updates, user_id)
         ELSE ApplyFields(row, entries, Tail(fields), updates, user_id)

update_task_fields_unfiltered(tk, hs, task_id, updates, user_id) ==
    [ok |-> TRUE,
     tasks |-> [tk EXCEPT ![task_id] =
                  [f \in DOMAIN @ |-> IF f \in DOMAIN updates THEN updates[f] ELSE @[f]]],
     history |-> hs]

\* changes = the allowed keys of updates; none: True, nothing done.  No task of this
\* id: False.  One UPDATE of the fields and one history entry per field; a value the
\* table refuses raises, nothing is committed and the result is False.
update_task_fields(tk, hs, task_id, updates, user_id) ==
    LET changed == {i \in DOMAIN allowed_fields : allowed_fields[i] \in DOMAIN updates}
        unchanged(ok) == [ok |-> ok, tasks |-> tk, history |-> hs]
    IN  IF changed = {} THEN unchanged(TRUE)
        ELSE IF task_id \notin DOMAIN tk THEN unchanged(FALSE)
        ELSE IF \E i \in changed : ~FieldCheck(allowed_fields[i], updates[allowed_fields[i]])
        THEN unchanged(FALSE)
        ELSE LET r == ApplyFields(tk[task_id], hs[task_id], allowed_fields, updates, user_id)
             IN  [ok |-> TRUE,
                  tasks |-> [tk EXCEPT ![task_id] = r.row],
                  history |-> [hs EXCEPT ![task_id] = r.entries]]

\* WHERE deadline < datetime('now') AND status NOT IN ('completed','cancelled','overdue')
OverdueCandidate(task, utcnow) ==
    /\ task.deadline # NULL
    /\ Val(task.deadline) < utcnow
    /\ task.status \notin {"completed", "cancelled", "overdue"}

update_overdue_tasks(tk, utcnow) ==
    [t \in DOMAIN tk |->
        IF OverdueCandidate(tk[t], utcnow) THEN [tk[t] EXCEPT !.status = "overdue"] ELSE tk[t]]

get_overdue_tasks(tk, us, utcnow) ==
    LET ids == {t \in DOMAIN tk : /\ tk[t].deadline # NULL
                                  /\ Val(tk[t].deadline) < utcnow
                                  /\ tk[t].status \notin {"completed", "cancelled"}}
        row(t) == [id |-> t, assignee_telegram_id |-> assignee_telegram_id(us, tk[t])]
        order == SortedBy(ids, [t \in ids |-> <<t, 0, 0>>])
    IN  [i \in DOMAIN order |-> row(order[i])]

exists_notification_never(ntf, task_id, notif_type) == FALSE

\* The notifications of a task and a type, any is_sent.
exists_notification_by_task_type(ntf, task_id, notif_type) ==
    \E n \in DOMAIN ntf : ntf[n].task_id = task_id /\ ntf[n].type = notif_type

get_unsent_notifications_by_task_type(ntf, task_id, notif_type) ==
    {n \in DOMAIN ntf : /\ ~ntf[n].is_sent
                        /\ ntf[n].task_id = task_id
                        /\ ntf[n].type = notif_type}

\* The message is kept as what the program reads back from it: for a reminder, the
\* lead time its heading names ("<hours> часов"); the text itself, with what else it
\* holds, is ReminderMessage below.
create_notification(ntf, user_id, task_id, notification_type, message, scheduled_at) ==
    Append(ntf, [user_id |-> user_id, task_id |-> task_id, type |-> notification_type,
                 message |-> message, is_sent |-> FALSE, scheduled_at |-> scheduled_at])

mark_notification_sent_lost(ntf, notification_id) == ntf

mark_notification_sent(ntf, notification_id) ==
    [ntf EXCEPT ![notification_id].is_sent = TRUE]

get_pending_notifications_all(ntf, utcnow) ==
    LET ids == {n \in DOMAIN ntf : ntf[n].scheduled_at <= utcnow}
    IN  SortedBy(ids, [n \in ids |-> <<ntf[n].scheduled_at, n, 0>>])

\* WHERE n.is_sent = 0 AND n.scheduled_at <= datetime('now') ORDER BY n.scheduled_at
get_pending_notifications(ntf, utcnow) ==
    LET ids == {n \in DOMAIN ntf : ~ntf[n].is_sent /\ ntf[n].scheduled_at <= utcnow}
    IN  SortedBy(ids, [n \in ids |-> <<ntf[n].scheduled_at, n, 0>>])

\* SUM(CASE WHEN ... THEN 1 ELSE 0 END) over the selected rows: NULL when there is none.
SumCase(tk, rows, statuses) ==
    IF rows = {} THEN NULL ELSE Some(Cardinality({t \in rows : tk[t].status \in statuses}))

\* SELECT COUNT(*), SUM(...), SUM(...), SUM(...) FROM tasks WHERE assignee_id = ?
get_user_stats(tk, user_id) ==
    LET rows == {t \in DOMAIN tk : tk[t].assignee_id = user_id}
    IN  [total_tasks |-> Cardinality(rows),
         completed_tasks |-> SumCase(tk, rows, {"completed"}),
         overdue_tasks |-> SumCase(tk, rows, {"overdue"}),
         active_tasks |-> SumCase(tk, rows, {"new", "in_progress"})]

\* SELECT COUNT(*), SUM(...), SUM(...), SUM(...) FROM tasks
get_general_stats(tk) ==
    [total_tasks |-> Len(tk),
     completed_tasks |-> SumCase(tk, DOMAIN tk, {"completed"}),
     overdue_tasks |-> SumCase(tk, DOMAIN tk, {"overdue"}),
     active_tasks |-> SumCase(tk, DOMAIN tk, {"new", "in_progress"})]

\* WHERE t.assignee_id = ?
get_tasks_by_user(tk, user_id) ==
    {t \in DOMAIN tk : tk[t].assignee_id = user_id}

\* get_all_tasks(status): SELECT t.*, creator_name, assignee_name ... WHERE t.status = ?
\* ORDER BY t.deadline ASC, t.created_at DESC.  The rows hold the columns of tasks and
\* the two names; they hold no assignee_telegram_id.
get_all_tasks(tk, status) ==
    LET ids == {t \in DOMAIN tk : status = "None" \/ tk[t].status = status}
        key(t) == IF tk[t].deadline = NULL THEN <<0, 0, 0 - t>>
                  ELSE <<1, Val(tk[t].deadline), 0 - t>>
        order == SortedBy(ids, [t \in ids |-> key(t)])
    IN  [i \in DOMAIN order |->
            [id |-> order[i], assignee_id |-> tk[order[i]].assignee_id,
             deadline |-> tk[order[i]].deadline]]

-----------------------------------------------------------------------------
(* The initial state: an empty database with the users registered, the loop about
   to start its first tick. *)

Idle == [pc |-> "sleep", queue |-> <<>>, cur |-> 0]

\* No function has been evaluated.
NoCalc == [op |-> "none"]

Started ==
    /\ now = 0
    /\ users = RegisteredUsers
    /\ tasks = <<>>
    /\ history = <<>>
    /\ notifications = <<>>
    /\ sched = Idle
    /\ delivered = [t \in TaskIds |-> 0]
    /\ flipped = {}
    /\ failures = 0
    /\ reply = "none"
    /\ shown = {}
    /\ calc = NoCalc

Init ==
    /\ limits = [tasks |-> MaxTasks, hist |-> MaxHist, failures |-> MaxFailures]
    /\ Started

\* The same start, explored with the second set of bounds.
ManyInit ==
    /\ limits = [tasks |-> ManyTasks, hist |-> MaxHist, failures |-> ManyFailures]
    /\ Started

\* Two tasks, with room for one change of status between them.
RaceInit ==
    /\ limits = [tasks |-> ManyTasks, hist |-> MaxHist, failures |-> MaxFailures]
    /\ Started

\* The state after construction: the database has no user yet.
AuthInit ==
    /\ limits = [tasks |-> MaxTasks, hist |-> MaxHist, failures |-> MaxFailures]
    /\ now = 0
    /\ users = <<>>
    /\ tasks = <<>>
    /\ history = <<>>
    /\ notifications = <<>>
    /\ sched = Idle
    /\ delivered = [t \in TaskIds |-> 0]
    /\ flipped = {}
    /\ failures = 0
    /\ reply = "none"
    /\ shown = {}
    /\ calc = NoCalc

\* The same start, with room for the history of an update of fields.
EditInit ==
    /\ limits = [tasks |-> MaxTasks, hist |-> EditHist, failures |-> MaxFailures]
    /\ Started

\* The loop is suspended: asyncio.sleep between ticks or after a failed tick, or
\* an awaited send_message.
AtAwait == sched.pc \in {"sleep", "recover", "drain_wait", "sweep_wait"}

dbvars == <<tasks, history>>
schedvars == <<notifications, sched, delivered, flipped, failures>>

\* The number of rows of task_history.
RECURSIVE HistoryRows(_)
HistoryRows(hs) == IF hs = <<>> THEN 0 ELSE Len(Head(hs)) + HistoryRows(Tail(hs))

-----------------------------------------------------------------------------
(* bot.py: the request handlers *)

\* parts = data.split('_'); new_status = parts[3], for data = task_status_<id>_<status>:
\* the status in_progress is itself split at its underscore.
CallbackStatus(button) == IF button = "in_progress" THEN "in" ELSE button

MayChangeStatus_anyone(task, user_id, role) == TRUE

\* if task['assignee_id'] != db_user['id'] and db_user['role'] != 'admin': refuse
MayChangeStatus(task, user_id, role) ==
    ~(task.assignee_id # user_id /\ role # "admin")

\* The failures an awaited send adds to the count.
Failing(outcome) == IF outcome = "ok" THEN 0 ELSE 1

\* What the awaited notification of the task's creator can do: it is sent, or the
\* send raises.
NotifyOutcomes == {"ok", "send_failed"}

\* The creator is told of the change when somebody else made it.
NotifiesCreator(task, user_id) == task.creator_id # user_id

change_task_status_rollback(user_id, task_id, button) ==
    /\ AtAwait
    /\ LET new_status == CallbackStatus(button) IN
       IF task_id \notin DOMAIN tasks
       THEN reply' = "task_not_found" /\ UNCHANGED <<dbvars, failures>>
       ELSE IF ~MayChangeStatus(tasks[task_id], user_id, users[user_id].role)
       THEN reply' = "no_rights_for_task" /\ UNCHANGED <<dbvars, failures>>
       ELSE LET r == update_task_status(tasks, history, task_id, new_status, user_id, now) IN
            /\ r.ok => HistoryRows(history) < limits.hist
            /\ IF r.ok /\ NotifiesCreator(tasks[task_id], user_id)
               THEN \E o \in NotifyOutcomes :
                       /\ failures + Failing(o) <= limits.failures
                       /\ failures' = failures + Failing(o)
                       /\ tasks' = IF o = "ok" THEN r.tasks ELSE tasks
                       /\ history' = IF o = "ok" THEN r.history ELSE history
                       /\ reply' = IF o = "ok" THEN "status_changed" ELSE "status_error"
               ELSE /\ tasks' = r.tasks
                    /\ history' = r.history
                    /\ reply' = IF r.ok THEN "status_changed" ELSE "status_error"
                    /\ UNCHANGED failures
    /\ shown' = {}
    /\ UNCHANGED <<now, users, limits, calc>>
    /\ UNCHANGED <<notifications, sched, delivered, flipped>>

\* success = db.update_task_status(...): the change is committed.  Then, if the task
\* was created by somebody else, the creator is notified inside try/except: a failed
\* send is logged and the handler goes on to show the task.
change_task_status(user_id, task_id, button) ==
    /\ AtAwait
    /\ LET new_status == CallbackStatus(button) IN
       IF task_id \notin DOMAIN tasks
       THEN reply' = "task_not_found" /\ UNCHANGED <<dbvars, failures>>
       ELSE IF ~MayChangeStatus(tasks[task_id], user_id, users[user_id].role)
       THEN reply' = "no_rights_for_task" /\ UNCHANGED <<dbvars, failures>>
       ELSE LET r == update_task_status(tasks, history, task_id, new_status, user_id, now) IN
            /\ r.ok => HistoryRows(history) < limits.hist
            /\ tasks' = r.tasks
            /\ history' = r.history
            /\ reply' = IF r.ok THEN "status_changed" ELSE "status_error"
            /\ IF r.ok /\ NotifiesCreator(tasks[task_id], user_id)
               THEN \E o \in NotifyOutcomes :
                       /\ failures + Failing(o) <= limits.failures
                       /\ failures' = failures + Failing(o)
               ELSE UNCHANGED failures
    /\ shown' = {}
    /\ UNCHANGED <<now, users, limits, calc>>
    /\ UNCHANGED <<notifications, sched, delivered, flipped>>

\* confirm_cancel_yes_<id>: the handler asks for no role.
confirm_cancel_task(user_id, task_id) ==
    /\ AtAwait
    /\ LET r == cancel_task(tasks, history, task_id, user_id) IN
       /\ r.ok => HistoryRows(history) < limits.hist
       /\ tasks' = r.tasks
       /\ history' = r.history
       /\ reply' = IF r.ok THEN "task_cancelled" ELSE "cancel_error"
    /\ shown' = {}
    /\ UNCHANGED <<now, users, limits, calc>>
    /\ UNCHANGED schedvars

handle_assign_to_user_unguarded(user_id, new_assignee_id, task_id) ==
    /\ AtAwait
    /\ LET r == assign_task(tasks, history, task_id, new_assignee_id, user_id) IN
       /\ r.ok => HistoryRows(history) < limits.hist
       /\ tasks' = r.tasks
       /\ history' = r.history
       /\ reply' = IF r.ok THEN "task_reassigned" ELSE "reassign_error"
    /\ shown' = {}
    /\ UNCHANGED <<now, users, limits, calc>>
    /\ UNCHANGED schedvars

\* assign_to_<user>_<task>
handle_assign_to_user(user_id, new_assignee_id, task_id) ==
    /\ AtAwait
    /\ IF users[user_id].role # "admin"
       THEN reply' = "insufficient_rights" /\ UNCHANGED dbvars
       ELSE LET r == assign_task(tasks, history, task_id, new_assignee_id, user_id) IN
            /\ r.ok => HistoryRows(history) < limits.hist
            /\ tasks' = r.tasks
            /\ history' = r.history
            /\ reply' = IF r.ok THEN "task_reassigned" ELSE "reassign_error"
    /\ shown' = {}
    /\ UNCHANGED <<now, users, limits, calc>>
    /\ UNCHANGED schedvars

\* for user_data in db.get_all_users(): if user_data['id'] == assignee_id: the
\* assignee is told of the task when the dialogue has picked one and the user exists.
NotifiesAssignee(us, assignee_id) == assignee_id # 0 /\ assignee_id \in DOMAIN us

\* The task creation dialogue, from the create_task button to the priority button.
\* db.create_task commits the task and its history entry; then, inside the same try,
\* the assignee is notified; the except clause answers with the creation error.
handle_task_priority(user_id, assignee_id, deadline) ==
    /\ AtAwait
    /\ users[user_id].role = "admin"
    /\ Len(tasks) < limits.tasks
    /\ HistoryRows(history) < limits.hist
    /\ LET r == create_task(tasks, history, user_id, assignee_id, deadline) IN
       /\ tasks' = r.tasks
       /\ history' = r.history
    /\ IF NotifiesAssignee(users, assignee_id)
       THEN \E o \in NotifyOutcomes :
               /\ failures + Failing(o) <= limits.failures
               /\ failures' = failures + Failing(o)
               /\ reply' = IF o = "ok" THEN "task_created" ELSE "create_error"
       ELSE /\ reply' = "task_created"
            /\ UNCHANGED failures
    /\ shown' = {}
    /\ UNCHANGED <<now, users, limits, calc>>
    /\ UNCHANGED <<notifications, sched, delivered, flipped>>

\* all_tasks: every task, whoever asks.
show_all_tasks(user_id) ==
    /\ AtAwait
    /\ LET rows == get_all_tasks(tasks, "None") IN
       /\ reply' = IF rows = <<>> THEN "no_tasks" ELSE "all_tasks"
       /\ shown' = {rows[i].id : i \in DOMAIN rows}
    /\ UNCHANGED <<now, users, limits, calc>>
    /\ UNCHANGED dbvars
    /\ UNCHANGED schedvars

\* my_tasks: every task for an administrator, the user's own tasks otherwise.
show_my_tasks(user_id) ==
    /\ AtAwait
    /\ LET rows == get_all_tasks(tasks, "None")
           ids == IF users[user_id].role = "admin"
                  THEN {rows[i].id : i \in DOMAIN rows}
                  ELSE get_tasks_by_user(tasks, user_id)
       IN  /\ reply' = IF ids = {} THEN "no_tasks" ELSE "my_tasks"
           /\ shown' = ids
    /\ UNCHANGED <<now, users, limits, calc>>
    /\ UNCHANGED dbvars
    /\ UNCHANGED schedvars

\* task_<id>: the task, whoever asks.
show_task_detail(user_id, task_id) ==
    /\ AtAwait
    /\ IF task_id \notin DOMAIN tasks
       THEN reply' = "task_not_found" /\ shown' = {}
       ELSE reply' = "task_detail" /\ shown' = {task_id}
    /\ UNCHANGED <<now, users, limits, calc>>
    /\ UNCHANGED dbvars
    /\ UNCHANGED schedvars

\* max(total, 1)
max(a, b) == IF a >= b THEN a ELSE b

\* completed / max(total, 1) * 100, kept as the fraction it is.
Rate(completed, total) == [num |-> completed * 100, den |-> max(total, 1)]

\* report_my_stats: completion_rate = (stats['completed_tasks'] /
\* max(stats['total_tasks'], 1)) * 100; None / int raises TypeError.
show_my_stats(user_id) ==
    /\ AtAwait
    /\ LET stats == get_user_stats(tasks, user_id) IN
       IF stats.completed_tasks = NULL
       THEN /\ reply' = "exception"
            /\ calc' = [op |-> "my_stats", total_tasks |-> stats.total_tasks,
                        raised |-> TRUE, rate |-> NULL]
       ELSE /\ reply' = "my_stats"
            /\ calc' = [op |-> "my_stats", total_tasks |-> stats.total_tasks,
                        raised |-> FALSE,
                        rate |-> Some(Rate(Val(stats.completed_tasks), stats.total_tasks))]
    /\ shown' = {}
    /\ UNCHANGED <<now, users, limits>>
    /\ UNCHANGED dbvars
    /\ UNCHANGED schedvars

\* total_tasks = len(tasks); completed_tasks = len([t for t in tasks if ...]);
\* completed_tasks / max(total_tasks, 1) * 100
_create_statistics_sheet(tk, rows) ==
    Rate(Cardinality({t \in rows : tk[t].status = "completed"}), Cardinality(rows))

\* len([t for t in tasks if t['status'] ...]) over a list of tasks: the counts of the
\* statistics sheet, and of one assignee's row of the analytics sheet.
LenCounts(tk, rows) ==
    [total_tasks |-> Cardinality(rows),
     completed_tasks |-> Cardinality({t \in rows : tk[t].status = "completed"}),
     overdue_tasks |-> Cardinality({t \in rows : tk[t].status = "overdue"}),
     active_tasks |-> Cardinality({t \in rows : tk[t].status \in {"new", "in_progress"}})]

\* user_tasks[assignee].append(task); one row of counts per assignee that has tasks.
_create_user_analytics_sheet(tk) ==
    LET assignees == {tk[t].assignee_id : t \in DOMAIN tk}
    IN  [a \in assignees |-> LenCounts(tk, {t \in DOMAIN tk : tk[t].assignee_id = a})]

\* report_general_excel: the administrator's report over db.get_all_tasks(), its
\* statistics sheet.
generate_general_excel_report(user_id) ==
    /\ AtAwait
    /\ IF users[user_id].role # "admin"
       THEN reply' = "insufficient_rights" /\ UNCHANGED calc
       ELSE /\ reply' = "report"
            /\ calc' = [op |-> "statistics_sheet", total_tasks |-> Len(tasks),
                        raised |-> FALSE,
                        rate |-> Some(_create_statistics_sheet(tasks, DOMAIN tasks))]
    /\ shown' = {}
    /\ UNCHANGED <<now, users, limits>>
    /\ UNCHANGED dbvars
    /\ UNCHANGED schedvars

\* The clock moves on by an hour between two ticks.
AdvanceTime ==
    /\ sched.pc \in {"sleep", "recover"}
    /\ now < MaxTime
    /\ now' = now + 1
    /\ reply' = "none"
    /\ shown' = {}
    /\ UNCHANGED <<users, limits, calc, tasks, history>>
    /\ UNCHANGED schedvars

\* The creation dialogue, with a deadline typed by hand or with none.
CreateRequest ==
    \/ \E u \in UserIds, a \in CreateAssignees, d \in ManualDeadlines :
          handle_task_priority(u, a, to_utc(Some(d)))
    \/ \E u \in UserIds, a \in CreateAssignees : handle_task_priority(u, a, NULL)

\* The UTC instants and the display offsets the functions of utils.py are evaluated at.
Instants == {3600 * h + 60 * m + sec : h \in 0..MaxTime, m \in {0, 59}, sec \in {0, 59}}
Offsets == (0 - MaxOffsetHours)..MaxOffsetHours

\* An instant is shown and taken back: as the local datetime, and as the text
\* format_datetime writes, read again in the format the deadline dialogue accepts.
RoundTrip(instant, offset_hours) ==
    /\ calc' = [op |-> "round_trip", instant |-> instant, offset_hours |-> offset_hours,
                display |-> format_datetime(Naive(instant), offset_hours),
                of_local |-> to_utc_datetime(_to_local_time(Naive(instant), offset_hours),
                                             offset_hours),
                of_text |-> to_utc_datetime(
                                strptime(format_datetime(Naive(instant), offset_hours)),
                                offset_hours)]
    /\ reply' = "none"
    /\ shown' = {}
    /\ UNCHANGED <<now, users, tasks, history, notifications, sched, delivered, flipped,
                   failures, limits>>

\* The deadline typed in the creation dialogue: validate_deadline; a text it returns
\* None for is answered with the prompt again; else user_data holds to_utc(deadline).
\* An exception leaves the handler.
handle_manual_deadline(text) ==
    /\ LET r == validate_deadline(text, 3600 * get_current_tashkent_time(now))
           utc == IF r.value = NULL THEN NULL
                  ELSE Some(to_utc_datetime(Val(r.value), DISPLAY_TZ_OFFSET_HOURS))
           raised == r.raised \/ (utc # NULL /\ ~InDatetimeRange(Val(utc).wall))
       IN  /\ calc' = [op |-> "manual_deadline", text |-> text, raised |-> raised,
                       deadline |-> IF raised THEN NULL ELSE utc]
           /\ reply' = IF raised THEN "exception"
                       ELSE IF r.value = NULL THEN "deadline_again" ELSE "deadline_set"
    /\ shown' = {}
    /\ UNCHANGED <<now, users, tasks, history, notifications, sched, delivered, flipped,
                   failures, limits>>

\* The four places that count the tasks of a table, each evaluated on it.
Statistics(tk) ==
    /\ calc' = [op |-> "statistics", table |-> tk,
                general |-> get_general_stats(tk),
                per_user |-> [u \in UserIds |-> get_user_stats(tk, u)],
                sheet |-> LenCounts(tk, DOMAIN tk),
                analytics |-> _create_user_analytics_sheet(tk)]
    /\ reply' = "none"
    /\ shown' = {}
    /\ UNCHANGED <<now, users, tasks, history, notifications, sched, delivered, flipped,
                   failures, limits>>

\* The days of the quick buttons deadline_1d, deadline_3d, deadline_7d, deadline_30d,
\* and the time zones the host's clock and the display can be set to.
ButtonDays == {1, 3, 7, 30}
HostOffsets == {0 - MaxOffsetHours, 0, DISPLAY_TZ_OFFSET_HOURS}
DisplayOffsets == {0, DISPLAY_TZ_OFFSET_HOURS}

\* deadline_<n>d: deadline = to_utc(datetime.now() + timedelta(days=n)).
\* datetime.now() is the naive wall clock of the host's time zone.
handle_task_deadline(days, host_offset, offset_hours) ==
    /\ calc' = [op |-> "quick_deadline", instant |-> 3600 * now, days |-> days,
                host_offset |-> host_offset, offset_hours |-> offset_hours,
                stored |-> to_utc_datetime(
                                Naive(3600 * now + 3600 * host_offset + 86400 * days),
                                offset_hours)]
    /\ reply' = "deadline_set"
    /\ shown' = {}
    /\ UNCHANGED <<now, users, tasks, history, notifications, sched, delivered, flipped,
                   failures, limits>>

\* The tables of tasks update_overdue_tasks is evaluated on: one task or two, of any
\* status the table admits, with no deadline or one before, at or after the sweep.
SweepTime == MaxTime - 1
SweepRows ==
    [creator_id : {1}, assignee_id : {2}, status : Statuses,
     deadline : {NULL, Some(SweepTime - 1), Some(SweepTime), Some(SweepTime + 1)},
     completed_at : {NULL}]
SweepTables == {<<r>> : r \in SweepRows} \cup {<<r, q>> : r \in SweepRows, q \in SweepRows}

\* db.update_overdue_tasks() on a table, at a time.
SweepTable(tk, utcnow) ==
    /\ calc' = [op |-> "sweep", before |-> tk, utcnow |-> utcnow,
                after |-> update_overdue_tasks(tk, utcnow)]
    /\ reply' = "none"
    /\ shown' = {}
    /\ UNCHANGED <<now, users, tasks, history, notifications, sched, delivered, flipped,
                   failures, limits>>

\* str(n) of a number of hours, character by character.
RECURSIVE Decimal(_)
Decimal(n) ==
    LET digit == <<"0", "1", "2", "3", "4", "5", "6", "7", "8", "9">>[(n % 10) + 1]
    IN  IF n < 10 THEN <<digit>> ELSE Append(Decimal(n \div 10), digit)

\* f"{hours_before} часов", the word in Latin letters
LeadText(hours_before) == Append(Decimal(hours_before), " chasov")

\* The text of a reminder: its heading, the lead time, and format_task(task), which
\* holds the title and the description of the task.
ReminderMessage(hours_before, content) ==
    <<"ostalos **">> \o LeadText(hours_before) \o <<"**!">> \o content

\* needle in text
Contains(needle, text) ==
    \E i \in 0..(Len(text) - Len(needle)) : SubSeq(text, i + 1, i + Len(needle)) = needle

\* for notif in existing_notifications: if f"{hours_before} часов" in notif['message']
SuppressedByText(messages, hours_before) ==
    \E m \in messages : Contains(LeadText(hours_before), m)

\* The lists REMINDER_HOURS_BEFORE can be configured as, and what the title and the
\* description of a task can hold.
LeadLists == {REMINDER_HOURS_BEFORE, <<12, 2>>, <<11, 1>>}
Contents == {<<"otchet">>, <<"sdat za ", "6", " chasov">>}

\* create_deadline_reminder decides on a reminder of a lead time for a task whose
\* unsent reminders are those of the lead times in existing.
DedupReminder(leads, content, existing, hours_before) ==
    /\ calc' = [op |-> "dedup", leads |-> leads, content |-> content,
                existing |-> existing, hours_before |-> hours_before,
                suppressed |-> SuppressedByText(
                                  {ReminderMessage(h, content) : h \in existing},
                                  hours_before)]
    /\ reply' = "none"
    /\ shown' = {}
    /\ UNCHANGED <<now, users, tasks, history, notifications, sched, delivered, flipped,
                   failures, limits>>

\* The values an update brings, for keys that are allowed and keys that are not.
UpdateValues ==
    [title |-> "title2", description |-> "description2", priority |-> "high",
     deadline |-> Some(1), assignee_id |-> 3,
     status |-> "completed", creator_id |-> 3, completed_at |-> Some(0), id |-> 4]
UpdateKeys == {"title", "description", "priority", "deadline", "assignee_id",
               "status", "creator_id", "completed_at", "id"}
UpdateUsers == {1, 2}
UpdateKeySets ==
    {{}, {"status"}, {"deadline", "id"},
     {"title", "assignee_id", "status", "creator_id"},
     {"title", "description", "priority", "deadline", "assignee_id"}, UpdateKeys}

\* A call of db.update_task_fields(task_id, updates, user_id).
UpdateFields(user_id, task_id, keys) ==
    /\ AtAwait
    /\ LET updates == [k \in keys |-> UpdateValues[k]]
           r == update_task_fields(tasks, history, task_id, updates, user_id)
       IN  /\ HistoryRows(r.history) <= limits.hist
           /\ tasks' = r.tasks
           /\ history' = r.history
           /\ reply' = IF r.ok THEN "fields_updated" ELSE "fields_error"
           /\ calc' = [op |-> "update_fields", keys |-> keys, task_id |-> task_id]
    /\ shown' = {}
    /\ UNCHANGED <<now, users, limits>>
    /\ UNCHANGED schedvars

\* The chats requests come from, by telegram id, and the texts typed as password.
Chats == {101, 102}
Passwords == {"admin_password", "user_password", "wrong"}

\* auth.py: the role whose password hash the hash of the text equals, if any.
validate_password(password) ==
    IF password = "admin_password" THEN Some("admin")
    ELSE IF password = "user_password" THEN Some("user")
    ELSE NULL

create_user_replacing(us, telegram_id, role) ==
    LET found == get_user_by_telegram_id(us, telegram_id) IN
    IF found # {}
    THEN [ok |-> TRUE, users |-> [us EXCEPT ![Val(found)].role = role]]
    ELSE [ok |-> TRUE, users |-> Append(us, [telegram_id |-> telegram_id, role |-> role])]

\* INSERT INTO users ...: telegram_id is UNIQUE, and the IntegrityError of a second
\* row for the same telegram id is caught and answered with False.
create_user(us, telegram_id, role) ==
    IF get_user_by_telegram_id(us, telegram_id) # {}
    THEN [ok |-> FALSE, users |-> us]
    ELSE [ok |-> TRUE, users |-> Append(us, [telegram_id |-> telegram_id, role |-> role])]

\* A text typed while the registration dialogue waits for the password.  The state
\* of the dialogue is kept per chat and user, so the text can come from a user who
\* has registered in another chat in the meantime.
handle_password(chat, password) ==
    /\ AtAwait
    /\ LET role == validate_password(password) IN
       IF role = NULL
       THEN reply' = "wrong_password" /\ UNCHANGED users
       ELSE LET r == create_user(users, chat, Val(role)) IN
            /\ users' = r.users
            /\ reply' = IF r.ok THEN "registered" ELSE "registration_error"
    /\ shown' = {}
    /\ UNCHANGED <<now, limits, calc>>
    /\ UNCHANGED dbvars
    /\ UNCHANGED schedvars

\* button_callback: db_user = db.get_user_by_telegram_id(user.id); if not db_user:
\* answer and return; otherwise the callback goes to its handler.
button_callback(chat) ==
    LET db_user == get_user_by_telegram_id(users, chat) IN
    IF db_user = {}
    THEN /\ AtAwait
         /\ reply' = "user_not_found"
         /\ shown' = {}
         /\ UNCHANGED <<now, users, limits, calc>>
         /\ UNCHANGED dbvars
         /\ UNCHANGED schedvars
    ELSE \/ \E t \in TaskIds, b \in StatusButtons : change_task_status(Val(db_user), t, b)
         \/ \E t \in TaskIds : confirm_cancel_task(Val(db_user), t)
         \/ \E a \in AssignTargets, t \in TaskIds : handle_assign_to_user(Val(db_user), a, t)
         \/ show_my_tasks(Val(db_user))

\* The entry of the creation dialogue: if not db_user or db_user['role'] != 'admin'
\* the dialogue ends; an administrator goes through it to the priority button.
start_create_task_conversation(chat) ==
    LET db_user == get_user_by_telegram_id(users, chat) IN
    IF db_user = {} \/ (db_user # {} /\ users[Val(db_user)].role # "admin")
    THEN /\ AtAwait
         /\ reply' = "no_rights_create"
         /\ shown' = {}
         /\ UNCHANGED <<now, users, limits, calc>>
         /\ UNCHANGED dbvars
         /\ UNCHANGED schedvars
    ELSE \E a \in CreateAssignees, d \in {NULL} \cup {to_utc(Some(m)) : m \in ManualDeadlines} :
            handle_task_priority(Val(db_user), a, d)

\* The callback data the keyboards attach to their buttons, split at the underscores;
\* "N" stands for a number (the id of a task or of a user, the number of a page).
CallbackData ==
    {<<"main", "menu">>, <<"all", "tasks">>, <<"my", "tasks">>, <<"active", "tasks">>,
     <<"completed", "tasks">>, <<"reports">>, <<"gantt", "chart">>,
     <<"task", "N">>, <<"my", "task", "N">>, <<"active", "task", "N">>,
     <<"completed", "task", "N">>,
     <<"task", "page", "N">>, <<"my", "task", "page", "N">>,
     <<"active", "task", "page", "N">>, <<"completed", "task", "page", "N">>,
     <<"task", "status", "N", "completed">>, <<"task", "status", "N", "in", "progress">>,
     <<"task", "history", "N">>, <<"reassign", "task", "N">>, <<"assign", "to", "N", "N">>,
     <<"change", "status", "N">>, <<"edit", "task", "N">>, <<"cancel", "task", "N">>,
     <<"confirm", "cancel", "yes", "N">>,
     <<"report", "general", "excel">>, <<"report", "my", "excel">>,
     <<"report", "my", "stats">>, <<"user", "management">>, <<"user", "settings">>,
     <<"filters", "menu">>, <<"filter", "status", "overdue">>}

\* data == "..."
Equals(pattern) == [test |-> "equals", pattern |-> pattern]

\* data.startswith("..._"): the pattern and an underscore begin the data.
StartsWith(pattern) == [test |-> "startswith", pattern |-> pattern]

Matches(data, cond) ==
    IF cond.test = "equals"
    THEN data = cond.pattern
    ELSE Len(data) > Len(cond.pattern) /\ SubSeq(data, 1, Len(cond.pattern)) = cond.pattern

\* The if / elif chain of button_callback, in its order: the test and the handler.
DispatchChain ==
    <<<<Equals(<<"main", "menu">>), "show_main_menu">>,
      <<Equals(<<"all", "tasks">>), "show_all_tasks">>,
      <<Equals(<<"my", "tasks">>), "show_my_tasks">>,
      <<Equals(<<"active", "tasks">>), "show_active_tasks">>,
      <<Equals(<<"completed", "tasks">>), "show_completed_tasks">>,
      <<StartsWith(<<"task", "status">>), "change_task_status">>,
      <<StartsWith(<<"task">>), "show_task_detail">>,
      <<Equals(<<"reports">>), "show_reports_menu">>,
      <<Equals(<<"gantt", "chart">>), "generate_gantt_chart">>,
      <<StartsWith(<<"task", "page">>), "handle_task_page_navigation">>,
      <<StartsWith(<<"my", "task", "page">>), "handle_task_page_navigation">>,
      <<StartsWith(<<"active", "task", "page">>), "handle_task_page_navigation">>,
      <<StartsWith(<<"completed", "task", "page">>), "handle_task_page_navigation">>,
      <<StartsWith(<<"reassign", "task">>), "handle_reassign_task">>,
      <<StartsWith(<<"assign", "to">>), "handle_assign_to_user">>,
      <<StartsWith(<<"change", "status">>), "handle_change_status_menu">>,
      <<StartsWith(<<"task", "history">>), "show_task_history">>,
      <<Equals(<<"report", "general", "excel">>), "generate_general_excel_report">>,
      <<Equals(<<"report", "my", "excel">>), "generate_my_excel_report">>,
      <<Equals(<<"report", "my", "stats">>), "show_my_stats">>,
      <<Equals(<<"user", "management">>), "show_user_management">>,
      <<Equals(<<"user", "settings">>), "show_user_settings">>,
      <<StartsWith(<<"filter">>), "apply_filter">>,
      <<Equals(<<"filters", "menu">>), "show_filters_menu">>,
      <<StartsWith(<<"edit", "task">>), "start_edit_task">>,
      <<StartsWith(<<"cancel", "task">>), "start_cancel_task">>,
      <<StartsWith(<<"confirm", "cancel">>), "confirm_cancel_task">>>>

\* The handler the chain gives the data to: that of the first test that holds, the
\* main menu when none does.
Dispatch(data) ==
    LET hits == {i \in DOMAIN DispatchChain : Matches(data, DispatchChain[i][1])}
    IN  IF hits = {} THEN "show_main_menu"
        ELSE DispatchChain[CHOOSE i \in hits : \A j \in hits : i <= j][2]

\* A button is pressed and its callback data goes through the chain.
Route(data) ==
    /\ calc' = [op |-> "callback", data |-> data, handler |-> Dispatch(data)]
    /\ reply' = "none"
    /\ shown' = {}
    /\ UNCHANGED <<now, users, tasks, history, notifications, sched, delivered, flipped,
                   failures, limits>>

\* What a chat can send: a password, a button, the create_task button.
ChatRequest(chat) ==
    \/ \E p \in Passwords : handle_password(chat, p)
    \/ button_callback(chat)
    \/ start_create_task_conversation(chat)

\* The requests that write to the database.
Request ==
    \/ \E u \in UserIds, t \in TaskIds, b \in StatusButtons : change_task_status(u, t, b)
    \/ \E u \in UserIds, t \in TaskIds : confirm_cancel_task(u, t)
    \/ \E u \in UserIds, a \in AssignTargets, t \in TaskIds : handle_assign_to_user(u, a, t)
    \/ CreateRequest

\* The requests that only read it.
View ==
    \/ \E u \in UserIds : show_all_tasks(u)
    \/ \E u \in UserIds : show_my_tasks(u)
    \/ \E u \in UserIds, t \in TaskIds : show_task_detail(u, t)
    \/ \E u \in UserIds : show_my_stats(u)
    \/ \E u \in UserIds : generate_general_excel_report(u)

-----------------------------------------------------------------------------
(* notifications.py: the notification loop.  Each tick runs
   check_and_send_notifications, check_overdue_tasks, schedule_deadline_reminders
   in this order, then sleeps; an exception leaving any of them is caught by the
   loop, which sleeps 60 s and starts the next tick. *)

\* What an awaited send_message followed by mark_notification_sent can do: both
\* succeed, the send raises TelegramError, or the message is sent and the
\* mark-sent write fails.
Outcomes == {"ok", "send_failed", "mark_failed"}

\* The overdue alerts a dispatch delivers for the task of notification n.
Deliver(dl, ntf, n, outcome) ==
    IF outcome # "send_failed" /\ ntf[n].type = "deadline"
    THEN [dl EXCEPT ![ntf[n].task_id] = @ + 1]
    ELSE dl

\* while self.is_running: ... await self.check_and_send_notifications()
TickStart ==
    /\ sched.pc \in {"sleep", "recover"}
    /\ sched' = [pc |-> "drain", queue |-> get_pending_notifications(notifications, now),
                 cur |-> 0]
    /\ flipped' = {}
    /\ reply' = "none"
    /\ shown' = {}
    /\ UNCHANGED <<now, users, limits, calc, tasks, history, notifications, delivered, failures>>

\* for notification in notifications: await self.send_notification(...)
DrainItem ==
    /\ sched.pc = "drain"
    /\ sched.queue # <<>>
    /\ sched' = [sched EXCEPT !.pc = "drain_wait", !.cur = Head(sched.queue)]
    /\ UNCHANGED <<now, users, limits, calc, tasks, history, notifications, delivered, flipped,
                   failures, reply, shown>>

DrainSendDone_aborting(outcome) ==
    /\ sched.pc = "drain_wait"
    /\ failures + Failing(outcome) <= limits.failures
    /\ failures' = failures + Failing(outcome)
    /\ delivered' = Deliver(delivered, notifications, sched.cur, outcome)
    /\ notifications' = IF outcome = "ok"
                        THEN mark_notification_sent(notifications, sched.cur)
                        ELSE notifications
    /\ sched' = [pc |-> "drain", cur |-> 0,
                 queue |-> IF outcome = "ok" THEN Tail(sched.queue) ELSE <<>>]
    /\ reply' = "none"
    /\ shown' = {}
    /\ UNCHANGED <<now, users, limits, calc, tasks, history, flipped>>

DrainSendDone_marking(outcome) ==
    /\ sched.pc = "drain_wait"
    /\ failures + Failing(outcome) <= limits.failures
    /\ failures' = failures + Failing(outcome)
    /\ delivered' = Deliver(delivered, notifications, sched.cur, outcome)
    /\ notifications' = mark_notification_sent(notifications, sched.cur)
    /\ sched' = [pc |-> "drain", queue |-> Tail(sched.queue), cur |-> 0]
    /\ reply' = "none"
    /\ shown' = {}
    /\ UNCHANGED <<now, users, limits, calc, tasks, history, flipped>>

\* The send returns or raises; the except clause of the loop body swallows either
\* failure and the loop goes on to the next notification.
DrainSendDone(outcome) ==
    /\ sched.pc = "drain_wait"
    /\ failures + Failing(outcome) <= limits.failures
    /\ failures' = failures + Failing(outcome)
    /\ delivered' = Deliver(delivered, notifications, sched.cur, outcome)
    /\ notifications' = IF outcome = "ok"
                        THEN mark_notification_sent(notifications, sched.cur)
                        ELSE notifications
    /\ sched' = [pc |-> "drain", queue |-> Tail(sched.queue), cur |-> 0]
    /\ reply' = "none"
    /\ shown' = {}
    /\ UNCHANGED <<now, users, limits, calc, tasks, history, flipped>>

\* check_overdue_tasks: db.update_overdue_tasks(); overdue_tasks = db.get_overdue_tasks()
SweepStart ==
    /\ sched.pc = "drain"
    /\ sched.queue = <<>>
    /\ tasks' = update_overdue_tasks(tasks, now)
    /\ flipped' = {t \in DOMAIN tasks : OverdueCandidate(tasks[t], now)}
    /\ sched' = [pc |-> "sweep",
                 queue |-> get_overdue_tasks(update_overdue_tasks(tasks, now), users, now),
                 cur |-> 0]
    /\ UNCHANGED <<now, users, limits, calc, history, notifications, delivered, failures, reply, shown>>

\* One iteration of "for task in overdue_tasks" up to its await.
SweepItem ==
    /\ sched.pc = "sweep"
    /\ sched.queue # <<>>
    /\ LET task == Head(sched.queue)
           assignee == IF task.assignee_telegram_id = NULL THEN {}
                       ELSE get_user_by_telegram_id(users, Val(task.assignee_telegram_id))
       IN  IF \/ exists_notification_by_task_type(notifications, task.id, "deadline")
              \/ assignee = {}
           THEN /\ sched' = [sched EXCEPT !.queue = Tail(@)]
                /\ UNCHANGED notifications
           ELSE /\ notifications' =
                       create_notification(notifications, Val(assignee), task.id, "deadline",
                                           0, get_current_tashkent_time(now))
                /\ sched' = [sched EXCEPT !.pc = "sweep_wait",
                                          !.cur = Len(notifications) + 1]
    /\ UNCHANGED <<now, users, limits, calc, tasks, history, delivered, flipped, failures, reply, shown>>

SweepSendDone_uncaught(outcome) ==
    /\ sched.pc = "sweep_wait"
    /\ failures + Failing(outcome) <= limits.failures
    /\ failures' = failures + Failing(outcome)
    /\ delivered' = Deliver(delivered, notifications, sched.cur, outcome)
    /\ notifications' = IF outcome = "ok"
                        THEN mark_notification_sent(notifications, sched.cur)
                        ELSE notifications
    /\ sched' = IF outcome = "ok"
                THEN [pc |-> "sweep", queue |-> Tail(sched.queue), cur |-> 0]
                ELSE [pc |-> "stopped", queue |-> <<>>, cur |-> 0]
    /\ reply' = "none"
    /\ shown' = {}
    /\ UNCHANGED <<now, users, limits, calc, tasks, history, flipped>>

\* await self.send_notification(...); db.mark_notification_sent(notif_id).  Nothing in
\* check_overdue_tasks catches: a failure leaves the sweep and the tick.
SweepSendDone(outcome) ==
    /\ sched.pc = "sweep_wait"
    /\ failures + Failing(outcome) <= limits.failures
    /\ failures' = failures + Failing(outcome)
    /\ delivered' = Deliver(delivered, notifications, sched.cur, outcome)
    /\ notifications' = IF outcome = "ok"
                        THEN mark_notification_sent(notifications, sched.cur)
                        ELSE notifications
    /\ sched' = IF outcome = "ok"
                THEN [pc |-> "sweep", queue |-> Tail(sched.queue), cur |-> 0]
                ELSE [pc |-> "recover", queue |-> <<>>, cur |-> 0]
    /\ reply' = "none"
    /\ shown' = {}
    /\ UNCHANGED <<now, users, limits, calc, tasks, history, flipped>>

\* The (task, lead time) pairs schedule_deadline_reminders finds due, in its order of
\* iteration: the new tasks, then the tasks in progress; per task the lead times.
DuePairs(rows, utcnow) ==
    LET due(row, h) ==
            /\ row.deadline # NULL
            /\ row.assignee_id # 0      \* "not task['assignee_id']": no assignee
            /\ Val(row.deadline) - h > utcnow
            /\ Val(row.deadline) - h <= utcnow + REMINDER_WINDOW_HOURS
        all == [k \in 1..(Len(rows) * Len(REMINDER_HOURS_BEFORE)) |->
                  LET i == ((k - 1) \div Len(REMINDER_HOURS_BEFORE)) + 1
                      j == ((k - 1) % Len(REMINDER_HOURS_BEFORE)) + 1
                  IN  [row |-> rows[i], hours_before |-> REMINDER_HOURS_BEFORE[j]]]
    IN  SelectSeq(all, LAMBDA p : due(p.row, p.hours_before))

\* create_deadline_reminder reads task['assignee_telegram_id']: a row without that
\* column raises KeyError.
create_deadline_reminder(ntf, us, row, hours_before, reminder_time) ==
    IF "assignee_telegram_id" \notin DOMAIN row
    THEN [raised |-> TRUE, notifications |-> ntf]
    ELSE LET assignee == IF row.assignee_telegram_id = NULL THEN {}
                         ELSE get_user_by_telegram_id(us, Val(row.assignee_telegram_id))
             existing == get_unsent_notifications_by_task_type(ntf, row.id, "reminder")
         IN  IF assignee = {} \/ \E n \in existing : ntf[n].message = hours_before
             THEN [raised |-> FALSE, notifications |-> ntf]
             ELSE [raised |-> FALSE,
                   notifications |-> create_notification(ntf, Val(assignee), row.id,
                                          "reminder", hours_before, reminder_time)]

RECURSIVE RemindLoop(_, _, _)
RemindLoop(ntf, us, pairs) ==
    IF pairs = <<>> THEN [raised |-> FALSE, notifications |-> ntf]
    ELSE LET p == Head(pairs)
             r == create_deadline_reminder(ntf, us, p.row, p.hours_before,
                                           Val(p.row.deadline) - p.hours_before)
         IN  IF r.raised THEN r ELSE RemindLoop(r.notifications, us, Tail(pairs))

schedule_deadline_reminders(ntf, us, tk, utcnow) ==
    LET active_tasks == get_all_tasks(tk, "new") \o get_all_tasks(tk, "in_progress")
    IN  RemindLoop(ntf, us, DuePairs(active_tasks, utcnow))

\* The end of the sweep, schedule_deadline_reminders and the sleep that follows it.
Reminders ==
    /\ sched.pc = "sweep"
    /\ sched.queue = <<>>
    /\ LET r == schedule_deadline_reminders(notifications, users, tasks, now) IN
       /\ notifications' = r.notifications
       /\ sched' = [pc |-> IF r.raised THEN "recover" ELSE "sleep", queue |-> <<>>, cur |-> 0]
    /\ UNCHANGED <<now, users, limits, calc, tasks, history, delivered, flipped, failures, reply, shown>>

\* The process is stopped and started again: the loop starts anew, the database stays.
Restart ==
    /\ AtAwait
    /\ sched.pc # "sleep"
    /\ failures < limits.failures
    /\ failures' = failures + 1
    /\ sched' = Idle
    /\ reply' = "none"
    /\ shown' = {}
    /\ UNCHANGED <<now, users, limits, calc, tasks, history, notifications, delivered, flipped>>

Scheduler ==
    \/ TickStart
    \/ DrainItem
    \/ \E o \in Outcomes : DrainSendDone(o)
    \/ SweepStart
    \/ SweepItem
    \/ \E o \in Outcomes : SweepSendDone(o)
    \/ Reminders
    \/ Restart

Next == Request \/ AdvanceTime \/ Scheduler

Spec == Init /\ [][Next]_vars

\* The requests alone, the reading ones among them: the loop stays asleep.
ViewNext == Request \/ View

ViewSpec == Init /\ [][ViewNext]_vars

\* The loop and the clock with no request but the creation of tasks.
ManyNext == CreateRequest \/ AdvanceTime \/ Scheduler

ManySpec == ManyInit /\ [][ManyNext]_vars

\* The event loop resumes the notification loop whenever its sleep or its awaited
\* send is over.
LiveSpec == Init /\ [][ManyNext]_vars /\ WF_vars(Scheduler)


\* The loop, the clock, the creation of tasks and the assignee's changes of status
\* and cancellations, taken while the loop awaits.
RaceNext ==
    \/ CreateRequest
    \/ \E t \in TaskIds, b \in {"completed", "new"} :
          \E u \in CreateAssignees : change_task_status(u, t, b)
    \/ \E t \in TaskIds : \E u \in CreateAssignees : confirm_cancel_task(u, t)
    \/ AdvanceTime
    \/ Scheduler

RaceSpec == RaceInit /\ [][RaceNext]_vars

\* The loop resumed fairly, with two tasks and a failing dispatch.
SweepLiveSpec == RaceInit /\ [][ManyNext]_vars /\ WF_vars(Scheduler)

\* The requests of the chats, registered or not, from the empty database on.
AuthNext == \E c \in Chats : ChatRequest(c)

AuthSpec == AuthInit /\ [][AuthNext]_vars

\* The creation of tasks and the updates of their fields.
EditNext ==
    \/ CreateRequest
    \/ \E u \in UpdateUsers, t \in TaskIds, keys \in UpdateKeySets : UpdateFields(u, t, keys)

EditSpec == EditInit /\ [][EditNext]_vars

\* The functions of utils.py, evaluated one at a time.
CalcNext ==
    \/ \E x \in Instants, off \in Offsets : RoundTrip(x, off)
    \/ \E text \in DeadlineTexts : handle_manual_deadline(text)
    \/ \E tk \in SweepTables : SweepTable(tk, SweepTime)
    \/ \E tk \in {<<>>} \cup SweepTables : Statistics(tk)
    \/ \E data \in CallbackData : Route(data)
    \/ \E days \in ButtonDays, host \in HostOffsets, off \in DisplayOffsets :
          handle_task_deadline(days, host, off)
    \/ \E leads \in LeadLists, content \in Contents :
          \E existing \in SUBSET {leads[i] : i \in DOMAIN leads} :
             \E i \in DOMAIN leads : DedupReminder(leads, content, existing, leads[i])

CalcSpec == Init /\ [][CalcNext]_vars

-----------------------------------------------------------------------------
(* Properties *)

\* The Deadline notifications stored for a task.
DeadlineNotifications(ntf, task_id) ==
    {n \in DOMAIN ntf : ntf[n].task_id = task_id /\ ntf[n].type = "deadline"}

\* C1: in every reachable state a task has a completion timestamp if and only if
\* its status is Completed.
C1_CompletedAtIffCompleted ==
    \A t \in DOMAIN tasks :
        (tasks[t].completed_at # NULL) <=> (tasks[t].status = "completed")

\* C2: every step that changes the status or the assignee of a task appends exactly
\* one entry to the history of that task.
C2_MutationAppendsHistory ==
    [][\A t \in DOMAIN tasks :
          (\/ tasks'[t].status # tasks[t].status
           \/ tasks'[t].assignee_id # tasks[t].assignee_id)
          => Len(history'[t]) = Len(history[t]) + 1]_vars

\* C3: no task ever has more than one stored Deadline notification.
C3_AtMostOneDeadlineNotification ==
    \A t \in TaskIds : Cardinality(DeadlineNotifications(notifications, t)) <= 1

\* A later sweep comes to an overdue task that already has its Deadline notification.
C3_Witness ==
    /\ sched.pc = "sweep"
    /\ sched.queue # <<>>
    /\ DeadlineNotifications(notifications, Head(sched.queue).id) # {}

\* C4: the "task overdue" alert reaches the recipient at most once per task, whatever
\* dispatch failures, storage failures and restarts occur.
C4_OverdueAlertAtMostOnce ==
    \A t \in TaskIds : delivered[t] <= 1

\* C5: a status-change request of a user who is not an administrator changes the task
\* only if that user is the assignee of the task; from anyone else it is refused and
\* leaves the task and its history as they were.
C5_NonAdminNeedsAssignee ==
    [][\A u \in UserIds, t \in DOMAIN tasks, b \in StatusButtons :
          (/\ users[u].role # "admin"
           /\ tasks[t].assignee_id # u
           /\ change_task_status(u, t, b))
          => (reply' = "no_rights_for_task" /\ UNCHANGED <<tasks, history>>)]_vars

\* A worker who is not the assignee has asked for a status change and was refused.
C5_Witness ==
    /\ reply = "no_rights_for_task"
    /\ \E t \in DOMAIN tasks : tasks[t].status = "new" /\ Len(history[t]) = 1

\* C6: the assignee's request to move a New task to InProgress succeeds and leaves the
\* history with the two entries created, status_changed; the assignee's following
\* request to move it to Completed succeeds, sets completed_at and appends a third
\* entry.
C6_AssigneeProgression ==
    [][\A u \in UserIds, t \in DOMAIN tasks :
          /\ (/\ tasks[t].assignee_id = u
               /\ tasks[t].status = "new"
               /\ Len(history[t]) = 1
               /\ change_task_status(u, t, "in_progress"))
              => (/\ tasks'[t].status = "in_progress"
                  /\ Len(history'[t]) = 2
                  /\ history'[t][1].action = "created"
                  /\ history'[t][2].action = "status_changed")
          /\ (/\ tasks[t].assignee_id = u
               /\ tasks[t].status = "in_progress"
               /\ Len(history[t]) = 2
               /\ change_task_status(u, t, "completed"))
              => (/\ tasks'[t].status = "completed"
                  /\ tasks'[t].completed_at # NULL
                  /\ Len(history'[t]) = 3)]_vars

\* The task of the notification the sweep is dispatching has exactly one Deadline
\* notification, and its is_sent is as given.
SweepNotificationIs(ntf, sent) ==
    LET t == notifications[sched.cur].task_id IN
    /\ DeadlineNotifications(ntf, t) = {sched.cur}
    /\ ntf[sched.cur].is_sent = sent

ReminderNotifications(ntf, task_id, hours_before) ==
    {n \in DOMAIN ntf : /\ ntf[n].task_id = task_id
                        /\ ntf[n].type = "reminder"
                        /\ ntf[n].message = hours_before}

\* An active task with a deadline and an assignee.
Remindable(t) ==
    /\ tasks[t].status \in {"new", "in_progress"}
    /\ tasks[t].deadline # NULL
    /\ tasks[t].assignee_id \in DOMAIN users

LeadTimes == {REMINDER_HOURS_BEFORE[i] : i \in DOMAIN REMINDER_HOURS_BEFORE}

\* C8: a run of the reminder scheduling, the first or a repeated one, leaves exactly
\* one Reminder notification for every task and lead time whose reminder time lies in
\* the scheduling window.
C8_OneReminderPerLeadTime ==
    [][Reminders =>
          \A t \in DOMAIN tasks, h \in LeadTimes :
              (/\ Remindable(t)
               /\ Val(tasks[t].deadline) - h > now
               /\ Val(tasks[t].deadline) - h <= now + REMINDER_WINDOW_HOURS)
              => Cardinality(ReminderNotifications(notifications', t, h)) = 1]_vars

\* C9: for an active task with a deadline and an assignee and a lead time with
\* now <= reminder_time <= now + window and no Reminder stored for them, the reminder
\* phase stores a Reminder with scheduled_at = reminder_time and is_sent false.
C9_ReminderCreatedInWindow ==
    [][Reminders =>
          \A t \in DOMAIN tasks, h \in LeadTimes :
              (/\ Remindable(t)
               /\ now <= Val(tasks[t].deadline) - h
               /\ Val(tasks[t].deadline) - h <= now + REMINDER_WINDOW_HOURS
               /\ ReminderNotifications(notifications, t, h) = {})
              => \E n \in ReminderNotifications(notifications', t, h) :
                     /\ notifications'[n].scheduled_at = Val(tasks[t].deadline) - h
                     /\ ~notifications'[n].is_sent]_vars

\* C10: no request of a worker sets the status of a task to Cancelled.
C10_WorkerNeverCancels ==
    [][\A u \in UserIds, t \in DOMAIN tasks :
          (/\ users[u].role = "user"
           /\ \/ confirm_cancel_task(u, t)
              \/ \E b \in StatusButtons : change_task_status(u, t, b))
          => ~(tasks[t].status # "cancelled" /\ tasks'[t].status = "cancelled")]_vars

\* C11: cancelling a task that is already Cancelled leaves it Cancelled, as the first
\* cancellation did, and reports success.
C11_CancelTwiceSucceeds ==
    [][\A u \in UserIds, t \in DOMAIN tasks :
          (tasks[t].status = "cancelled" /\ confirm_cancel_task(u, t))
          => (tasks'[t].status = "cancelled" /\ reply' = "task_cancelled")]_vars

\* A task has been cancelled twice in a row and the second request was answered with
\* success.
C11_Witness ==
    /\ reply = "task_cancelled"
    /\ \E t \in DOMAIN tasks :
          /\ tasks[t].status = "cancelled"
          /\ Len(history[t]) >= 3
          /\ history[t][Len(history[t])].old_value = "cancelled"
          /\ history[t][Len(history[t]) - 1].new_value = "cancelled"

\* C12: cancelling a task that is already Cancelled changes neither the task nor its
\* history.
C12_CancelCancelledIsNoOp ==
    [][\A u \in UserIds, t \in DOMAIN tasks :
          (tasks[t].status = "cancelled" /\ confirm_cancel_task(u, t))
          => UNCHANGED <<tasks, history>>]_vars

\* C13: the status of a Completed or Cancelled task changes only by a request of an
\* administrator, never by a worker's request or by the deadline sweep.
C13_TerminalChangedOnlyByAdmin ==
    [][\A t \in DOMAIN tasks :
          (/\ tasks[t].status \in {"completed", "cancelled"}
           /\ tasks'[t].status # tasks[t].status)
          => \E u \in UserIds :
                 /\ users[u].role = "admin"
                 /\ \/ confirm_cancel_task(u, t)
                    \/ \E b \in StatusButtons : change_task_status(u, t, b)]_vars

\* The status changes a non-admin assignee may ask for.
AssigneeEdges ==
    {<<"new", "in_progress">>, <<"new", "completed">>, <<"in_progress", "completed">>}

\* C14: a status change asked for by a non-admin assignee is accepted only along
\* New -> InProgress, New -> Completed and InProgress -> Completed; for any other pair
\* of current and requested status it is rejected and the task is left as it was.
C14_AssigneeEdgesOnly ==
    [][\A u \in UserIds, t \in DOMAIN tasks, b \in StatusButtons :
          (/\ users[u].role = "user"
           /\ tasks[t].assignee_id = u
           /\ <<tasks[t].status, b>> \notin AssigneeEdges
           /\ change_task_status(u, t, b))
          => (reply' # "status_changed" /\ UNCHANGED <<tasks, history>>)]_vars

\* C15: a reassignment asked for by a user who is not an administrator is refused and
\* leaves the assignee and the history of the task as they were; the assignee of a task
\* changes only by the reassignment request of an administrator.
C15_ReassignAdminOnly ==
    [][/\ \A u \in UserIds, a \in AssignTargets, t \in TaskIds :
            (users[u].role # "admin" /\ handle_assign_to_user(u, a, t))
            => (reply' = "insufficient_rights" /\ UNCHANGED <<tasks, history>>)
       /\ \A t \in DOMAIN tasks :
            tasks'[t].assignee_id # tasks[t].assignee_id
            => \E u \in UserIds, a \in AssignTargets :
                   users[u].role = "admin" /\ handle_assign_to_user(u, a, t)]_vars

\* A worker has asked to reassign an existing task and was refused.
C15_Witness ==
    /\ reply = "insufficient_rights"
    /\ \E t \in DOMAIN tasks : tasks[t].assignee_id \in CreateAssignees

\* C16: an administrator's reassignment of a task that does not exist, or to a user
\* who does not exist, fails and changes no assignee and no history.
C16_ReassignNotFound ==
    [][\A u \in UserIds, a \in AssignTargets, t \in TaskIds :
          (/\ users[u].role = "admin"
           /\ t \notin DOMAIN tasks \/ a \notin DOMAIN users
           /\ handle_assign_to_user(u, a, t))
          => (reply' = "reassign_error" /\ UNCHANGED <<tasks, history>>)]_vars

\* C17: whatever a worker asks to see (the list of all tasks, the list of the worker's
\* tasks, a task's detail), only tasks assigned to that worker are displayed.
C17_WorkerSeesOwnTasksOnly ==
    [][\A u \in UserIds :
          (/\ users[u].role = "user"
           /\ \/ show_all_tasks(u)
              \/ show_my_tasks(u)
              \/ \E t \in TaskIds : show_task_detail(u, t))
          => \A t \in shown' : tasks[t].assignee_id = u]_vars

\* C18: a failure inside a tick never ends the loop: after a phase has raised the loop
\* starts a new tick, and ticks start again and again for ever.
C18_LoopNeverStops ==
    /\ []<>(sched.pc = "drain")
    /\ (sched.pc = "recover") ~> (sched.pc = "drain")

\* The sweep has raised at the write of the sent mark, and a new tick has started.
C18_Witness ==
    /\ sched.pc = "drain"
    /\ failures = 1
    /\ \E n \in DOMAIN notifications :
          ~notifications[n].is_sent /\ delivered[notifications[n].task_id] = 1

\* The notifications a drain at this time selects.
Pending(ntf) ==
    LET q == get_pending_notifications(ntf, now) IN {q[i] : i \in DOMAIN q}

\* C19: a drain pass takes every notification that is pending when it starts and
\* attempts each of them in turn; a failed delivery moves the pass on to the next
\* notification, and the pass is left only when none remains.
C19_DrainIsolatesFailures ==
    [][/\ TickStart => sched'.queue = get_pending_notifications(notifications, now)
       /\ (sched.pc = "drain" /\ sched.queue # <<>> /\ sched' # sched) =>
            (/\ sched'.pc = "drain_wait"
             /\ sched'.cur = Head(sched.queue)
             /\ sched'.queue = sched.queue)
       /\ \A o \in Outcomes :
            DrainSendDone(o) => (sched'.pc = "drain" /\ sched'.queue = Tail(sched.queue))
       /\ (sched.pc \in {"drain", "drain_wait"} /\ sched'.pc \notin {"drain", "drain_wait"}) =>
            (sched.queue = <<>> \/ Restart)]_vars

\* In a pass over two pending notifications the first delivery has failed and the
\* second is being attempted.
C19_Witness ==
    /\ sched.pc = "drain_wait"
    /\ Len(sched.queue) = 1
    /\ \E n \in Pending(notifications) : n # sched.cur

\* C20: in the drain a notification becomes sent only when its delivery has succeeded;
\* after a failed delivery it stays unsent and is selected again by a later drain.
C20_MarkedOnlyAfterDelivery ==
    [][/\ \A n \in DOMAIN notifications :
            (/\ sched.pc = "drain_wait"
             /\ ~notifications[n].is_sent
             /\ notifications'[n].is_sent)
            => (/\ n = sched.cur
                /\ delivered'[notifications[n].task_id] =
                       delivered[notifications[n].task_id] + 1)
       /\ DrainSendDone("ok") => notifications'[sched.cur].is_sent
       /\ DrainSendDone("send_failed") =>
            (/\ ~notifications'[sched.cur].is_sent
             /\ sched.cur \in Pending(notifications'))]_vars

\* A drain pass has ended with a notification whose delivery failed: it is unsent and
\* pending.
C20_Witness ==
    /\ sched.pc = "drain"
    /\ sched.queue = <<>>
    /\ \E n \in Pending(notifications) : delivered[notifications[n].task_id] = 0

\* C21: is_sent changes at most once, from unsent to sent: a stored notification
\* changes in nothing but that flag, a sent notification never changes again, its
\* scheduled_at stays what it was created with, and the notification handed to a
\* dispatch is an unsent one.
C21_SentIsFinal ==
    [][/\ Len(notifications') >= Len(notifications)
       /\ \A n \in DOMAIN notifications :
            /\ notifications[n].is_sent => notifications'[n] = notifications[n]
            /\ notifications'[n] = [notifications[n] EXCEPT !.is_sent = notifications'[n].is_sent]
       /\ (sched'.pc \in {"drain_wait", "sweep_wait"} /\ sched' # sched) =>
            ~notifications'[sched'.cur].is_sent]_vars

\* A drain dispatches an unsent notification while a sent one whose scheduled_at has
\* passed stays out of the pass.
C21_Witness ==
    /\ sched.pc = "drain_wait"
    /\ \E n \in DOMAIN notifications :
          /\ n # sched.cur
          /\ notifications[n].is_sent
          /\ notifications[n].scheduled_at <= now

\* C22: a status change the database has accepted is stored with its history entry
\* and answered as done, whether the notification of the creator is delivered or
\* fails.
C22_NotifyFailureKeepsChange ==
    [][\A u \in UserIds, t \in DOMAIN tasks, b \in StatusButtons :
          LET r == update_task_status(tasks, history, t, CallbackStatus(b), u, now) IN
          (/\ change_task_status(u, t, b)
           /\ MayChangeStatus(tasks[t], u, users[u].role)
           /\ r.ok)
          => (/\ tasks' = r.tasks
              /\ history' = r.history
              /\ reply' = "status_changed")]_vars

\* The notification of the creator has failed and the task holds the new status and
\* the history entry of the change.
C22_Witness ==
    /\ reply = "status_changed"
    /\ failures = 1
    /\ \E t \in DOMAIN tasks :
          /\ tasks[t].status = "completed"
          /\ history[t][Len(history[t])].action = "status_changed"
          /\ history[t][Len(history[t])].user_id # tasks[t].creator_id

\* C23: for every UTC instant and every whole-hour display offset, the instant
\* converted to display time and back with to_utc is the instant again.
C23_RoundTripExact ==
    calc.op = "round_trip" =>
        (calc.of_local = Naive(calc.instant) /\ calc.of_text = Naive(calc.instant))

\* C23, amended: the local datetime gives the instant back exactly; the displayed
\* text gives back the instant cut to the whole minute, which is the instant itself
\* when, and only when, it has no seconds.
C23_RoundTripToTheMinute ==
    calc.op = "round_trip" =>
        /\ calc.of_local = Naive(calc.instant)
        /\ calc.of_text = Naive(calc.instant - (calc.instant % 60))

\* An instant with seconds has gone through the text under a negative offset.
C23_Witness ==
    /\ calc.op = "round_trip"
    /\ calc.offset_hours < 0
    /\ calc.instant % 60 # 0
    /\ calc.of_text # Naive(calc.instant)

\* The texts that denote a deadline the program can hold: a date and time, or a
\* relative expression, whose instant and whose UTC instant are both within the range
\* of datetime.
DenotesDeadline(text) ==
    LET current_time == 3600 * get_current_tashkent_time(now)
        local == CASE text.kind = "absolute" -> Some(60 * text.n)
                   [] text.kind = "days" -> Some(current_time + 86400 * text.n)
                   [] text.kind = "hours" -> Some(current_time + 3600 * text.n)
                   [] text.kind = "minutes" -> Some(current_time + 60 * text.n)
                   [] text.kind = "tomorrow" ->
                         Some(current_time - (current_time % 86400) + 86399 + 86400)
                   [] text.kind = "day_after_tomorrow" ->
                         Some(current_time - (current_time % 86400) + 86399 + 2 * 86400)
                   [] OTHER -> NULL
    IN  /\ local # NULL
        /\ InDatetimeRange(Val(local))
        /\ InDatetimeRange(Val(local) - 3600 * DISPLAY_TZ_OFFSET_HOURS)

\* C24: for every text that denotes no representable deadline, relative expressions
\* with a large count among them, the dialogue raises nothing, asks for the deadline
\* again and changes no task.
C24_ParsingNeverCrashes ==
    [][\A text \in DeadlineTexts :
          (handle_manual_deadline(text) /\ ~DenotesDeadline(text))
          => (/\ ~calc'.raised
              /\ reply' = "deadline_again"
              /\ UNCHANGED <<tasks, history>>)]_vars

\* C25: statistics over no task, of a user or of a set of tasks, raise nothing and
\* give the completion rate 0 over the guarded denominator 1.
C25_NoTasksRateZero ==
    (calc.op \in {"my_stats", "statistics_sheet"} /\ calc.total_tasks = 0) =>
        (~calc.raised /\ calc.rate = Some([num |-> 0, den |-> 1]))

\* C26: a tick runs the deadline sweep first, then the scheduling of reminders, then
\* the drain of the pending notifications: the loop leaves its sleep into the sweep,
\* and the drain is entered only when the reminders have been scheduled.
C26_SweepRemindersDrain ==
    [][/\ (sched.pc \in {"sleep", "recover"} /\ sched'.pc \notin {"sleep", "recover"})
            => sched'.pc \in {"sweep", "sweep_wait"}
       /\ (sched.pc \notin {"drain", "drain_wait"} /\ sched'.pc \in {"drain", "drain_wait"})
            => (sched.pc = "sweep" /\ sched.queue = <<>>)
       /\ (sched.pc \in {"drain", "drain_wait"} /\ sched'.pc \notin {"drain", "drain_wait"})
            => sched'.pc \in {"sleep", "recover"}]_vars

\* C27: a failed delivery, in the drain or in the immediate dispatch of the sweep,
\* does not end the tick in failure, and leaves the notification unsent and pending,
\* so that the drain of the next tick attempts it again.
C27_FailedDeliveryRetriedNextTick ==
    [][/\ DrainSendDone("send_failed") =>
            (/\ sched'.pc = "drain"
             /\ sched.cur \in Pending(notifications'))
       /\ SweepSendDone("send_failed") =>
            (/\ sched'.pc = "sweep"
             /\ sched.cur \in Pending(notifications'))]_vars

\* C28: the scheduled_at a notification is stored with is a UTC instant: for a
\* Deadline notification the UTC time of the sweep that stores it, for a Reminder the
\* task's UTC deadline less the lead time.
C28_ScheduledAtIsUTC ==
    [][Len(notifications') > Len(notifications) =>
          LET row == notifications'[Len(notifications')] IN
          /\ row.type = "deadline" => row.scheduled_at = now
          /\ row.type = "reminder" =>
                row.scheduled_at = Val(tasks[row.task_id].deadline) - row.message]_vars

\* C29: a sweep at a time changes to overdue exactly the tasks with a deadline before
\* that time and status new or in_progress, and nothing else of them; every other
\* task, and the number of tasks, is as before.
C29_SweepFlipsExactlyDue ==
    calc.op = "sweep" =>
        /\ DOMAIN calc.after = DOMAIN calc.before
        /\ \A t \in DOMAIN calc.before :
              LET before == calc.before[t]
                  due == /\ before.deadline # NULL
                         /\ Val(before.deadline) < calc.utcnow
                         /\ before.status \in {"new", "in_progress"}
              IN  calc.after[t] = IF due THEN [before EXCEPT !.status = "overdue"] ELSE before

\* A sweep over a task in progress and a completed task, both past their deadline:
\* the first is overdue, the second completed as before.
C29_Witness ==
    /\ calc.op = "sweep"
    /\ Len(calc.before) = 2
    /\ calc.before[1].status = "in_progress"
    /\ calc.before[2].status = "completed"
    /\ \A t \in 1..2 : calc.before[t].deadline = Some(calc.utcnow - 1)
    /\ calc.after[1].status = "overdue"
    /\ calc.after[2].status = "completed"

\* C30: for every content of a task and every configured list of lead times, the
\* reminder is suppressed by the text of the unsent reminders exactly when an unsent
\* reminder of the same task and the same lead time exists.
C30_TextDedupIsKeyDedup ==
    calc.op = "dedup" => (calc.suppressed <=> calc.hours_before \in calc.existing)

\* C31: an update of the fields of an existing task that brings allowed and unknown
\* keys succeeds, writes every allowed key, appends one history entry per allowed key
\* and leaves creator_id, status and completed_at as they were.
C31_UpdateAppliesAllowedOnly ==
    [][\A u \in UpdateUsers, t \in DOMAIN tasks, keys \in UpdateKeySets :
          UpdateFields(u, t, keys) =>
            LET allowed == keys \cap {"title", "description", "priority", "deadline",
                                      "assignee_id"}
            IN  /\ reply' = "fields_updated"
                /\ \A k \in allowed : tasks'[t][k] = UpdateValues[k]
                /\ tasks'[t].creator_id = tasks[t].creator_id
                /\ tasks'[t].status = tasks[t].status
                /\ tasks'[t].completed_at = tasks[t].completed_at
                /\ Len(history'[t]) = Len(history[t]) + Cardinality(allowed)
                /\ \A k \in allowed :
                      \E i \in (Len(history[t]) + 1)..Len(history'[t]) :
                         /\ history'[t][i].action = k \o "_updated"
                         /\ history'[t][i].user_id = u
                /\ SubSeq(history'[t], 1, Len(history[t])) = history[t]]_vars

\* An update with the keys title, assignee_id, status and creator_id has been applied:
\* title and assignee are the new ones, status and creator the old ones.
C31_Witness ==
    /\ calc.op = "update_fields"
    /\ {"title", "assignee_id", "status", "creator_id"} \subseteq calc.keys
    /\ reply = "fields_updated"
    /\ calc.task_id \in DOMAIN tasks
    /\ tasks[calc.task_id].title = "title2"
    /\ tasks[calc.task_id].assignee_id = 3
    /\ tasks[calc.task_id].status = "new"
    /\ tasks[calc.task_id].creator_id = 1

\* C32: a deadline "in N days", chosen from the quick buttons or typed, entered at the
\* UTC time t is stored as the UTC instant t + N days, whatever the time zone of the
\* host and the display offset.
C32_RelativeDeadlineIsUTC ==
    /\ calc.op = "quick_deadline" =>
          calc.stored = Naive(calc.instant + 86400 * calc.days)
    /\ (calc.op = "manual_deadline" /\ calc.text.kind = "days" /\ ~calc.raised) =>
          calc.deadline = Some(Naive(3600 * now + 86400 * calc.text.n))

\* The tasks of a table among rows whose status is one of statuses.
CountOf(tk, rows, statuses) == Cardinality({t \in rows : tk[t].status \in statuses})

\* The counts the claim gives for a set of tasks.
ExpectedCounts(tk, rows) ==
    [total_tasks |-> CountOf(tk, rows, {"completed"}) + CountOf(tk, rows, {"overdue"})
                     + CountOf(tk, rows, {"new", "in_progress"})
                     + CountOf(tk, rows, {"cancelled"}),
     completed_tasks |-> CountOf(tk, rows, {"completed"}),
     overdue_tasks |-> CountOf(tk, rows, {"overdue"}),
     active_tasks |-> CountOf(tk, rows, {"new", "in_progress"})]

\* The counts of an aggregation, a NULL read as no number.
SqlCounts(stats) ==
    [total_tasks |-> Some(stats.total_tasks), completed_tasks |-> stats.completed_tasks,
     overdue_tasks |-> stats.overdue_tasks, active_tasks |-> stats.active_tasks]
AsSql(counts) ==
    [total_tasks |-> Some(counts.total_tasks), completed_tasks |-> Some(counts.completed_tasks),
     overdue_tasks |-> Some(counts.overdue_tasks), active_tasks |-> Some(counts.active_tasks)]

\* C33: for every set of tasks the aggregation per user, the general aggregation, the
\* statistics sheet and the analytics sheet give the same counts: active is the
\* number of tasks new or in progress, and total is completed + overdue + active +
\* cancelled.
C33_StatisticsAgree ==
    calc.op = "statistics" =>
        LET tk == calc.table
            of(u) == {t \in DOMAIN tk : tk[t].assignee_id = u}
        IN  /\ SqlCounts(calc.general) = AsSql(ExpectedCounts(tk, DOMAIN tk))
            /\ calc.sheet = ExpectedCounts(tk, DOMAIN tk)
            /\ \A u \in UserIds : SqlCounts(calc.per_user[u]) = AsSql(ExpectedCounts(tk, of(u)))
            /\ \A a \in DOMAIN calc.analytics : calc.analytics[a] = ExpectedCounts(tk, of(a))

\* C34: when changes of status and cancellations interleave with a running sweep, the
\* sweep stores and dispatches no Deadline notification for a task that is completed
\* or cancelled at the moment the notification is stored.
C34_NoAlertForClosedTask ==
    [][(sched.pc = "sweep" /\ Len(notifications') > Len(notifications)) =>
          LET row == notifications'[Len(notifications')] IN
          row.type = "deadline" =>
              tasks[row.task_id].status \notin {"completed", "cancelled"}]_vars

\* C35: the drain of pending notifications delivers no Reminder and no Deadline
\* notification for a task that is completed or cancelled at the time of the
\* delivery.
C35_DrainSkipsClosedTasks ==
    [][(sched.pc = "drain_wait" /\ delivered' # delivered) =>
          LET row == notifications[sched.cur] IN
          row.type \in {"reminder", "deadline"} =>
              tasks[row.task_id].status \notin {"completed", "cancelled"}]_vars

\* C36: when ticks are scheduled fairly, every overdue task with an assignee comes to
\* have a stored Deadline notification, also when the dispatch for another overdue
\* task fails: a failing dispatch does not keep the sweep from the other tasks for
\* ever.
C36_SweepReachesEveryTask ==
    \A t \in 1..ManyTasks :
        (t \in DOMAIN tasks /\ tasks[t].status = "overdue" /\ tasks[t].assignee_id # 0)
            ~> exists_notification_by_task_type(notifications, t, "deadline")

\* The dispatch for one overdue task has failed, its notification is still unsent,
\* and a later sweep has stored the notification of the other task.
C36_Witness ==
    \E n, m \in DOMAIN notifications :
        /\ n < m
        /\ notifications[n].type = "deadline" /\ notifications[m].type = "deadline"
        /\ notifications[n].task_id # notifications[m].task_id
        /\ ~notifications[n].is_sent
        /\ delivered[notifications[n].task_id] = 0
        /\ failures >= 1

\* C37: whenever the creation dialogue answers the admin with the creation error, the
\* attempt has stored no task and no history entry; a notification of the assignee
\* that fails after the task is committed is not answered as a failed creation.
C37_CreationErrorStoresNothing ==
    [][\A u \in UserIds, a \in CreateAssignees,
          d \in {NULL} \cup {to_utc(Some(m)) : m \in ManualDeadlines} :
          (handle_task_priority(u, a, d) /\ reply' = "create_error")
              => (tasks' = tasks /\ history' = history)]_vars

\* C38: a request from a chat that has no user record changes no task, no history
\* entry and no notification; a user record comes into being only when a chat without
\* one enters a valid password, and then with the role of that password; a record
\* that exists, its role included, is never changed by a later password.
C38_OnlyRegisteredUsersAct ==
    [][/\ \A c \in Chats :
            (get_user_by_telegram_id(users, c) = {} /\ ChatRequest(c))
                => UNCHANGED <<tasks, history, notifications>>
       /\ users' # users =>
            \E c \in Chats, p \in Passwords :
                /\ validate_password(p) # NULL
                /\ get_user_by_telegram_id(users, c) = {}
                /\ handle_password(c, p)
                /\ users' = Append(users, [telegram_id |-> c,
                                           role |-> Val(validate_password(p))])
       /\ \A u \in DOMAIN users : u \in DOMAIN users' /\ users'[u] = users[u]]_vars

\* A chat without a user record has pressed a button while a task is stored, and has
\* been turned away.
C38_Witness ==
    /\ reply = "user_not_found"
    /\ tasks # <<>>
    /\ \E c \in Chats : get_user_by_telegram_id(users, c) = {}

\* The end of the day the given number of days after the local day of this time, as
\* the dialogue stores it.
EndOfDayAhead(days) ==
    LET current_time == 3600 * get_current_tashkent_time(now) IN
    Some(to_utc_datetime(Naive(current_time - (current_time % 86400) + 86399 + 86400 * days),
                         DISPLAY_TZ_OFFSET_HOURS))

\* C39: each relative expression resolves to its own meaning: "послезавтра" to the
\* end of the day two days ahead, "завтра" to the end of the day one day ahead; no
\* pattern earlier in the list takes a text meant for a later one.
C39_EachPatternItsOwnMeaning ==
    (calc.op = "manual_deadline" /\ ~calc.raised) =>
        /\ calc.text.kind = "tomorrow" => calc.deadline = EndOfDayAhead(1)
        /\ calc.text.kind = "day_after_tomorrow" => calc.deadline = EndOfDayAhead(2)

\* C40: the dispatcher gives every callback to the handler of its own action:
\* task_history_<id> to the history view, task_page_<n> to the pagination of the
\* list, my_task_<id>, active_task_<id> and completed_task_<id> to the task detail
\* view; no earlier test of the chain takes them.
C40_CallbackReachesItsHandler ==
    calc.op = "callback" =>
        /\ calc.data = <<"task", "history", "N">> => calc.handler = "show_task_history"
        /\ calc.data = <<"task", "page", "N">> =>
              calc.handler = "handle_task_page_navigation"
        /\ calc.data \in {<<"my", "task", "N">>, <<"active", "task", "N">>,
                          <<"completed", "task", "N">>} =>
              calc.handler = "show_task_detail"

====
